---- MODULE Spec2Model ----
(***************************************************************************)
(* llvm-objcopy: flattening the sections of an object file into a raw      *)
(* binary image (ObjectCopyBase::CopyTo, ObjectCopyBinary, main).          *)
(*                                                                         *)
(* The object file is read through its section iterator, one section per   *)
(* loop iteration; the sections seen so far are kept in `secs`.  The bytes *)
(* written to Out.os() are kept in `out` as a sequence of runs             *)
(* [val, cnt]: PrintSection writes one run of length 1 per byte, FillGap   *)
(* one run of Size equal bytes.                                            *)
(***************************************************************************)
EXTENDS Integers, Naturals, Sequences, FiniteSets, TLC

(* ------------------------------ bounds -------------------------------- *)

\* Number of sections the section iterator yields at most.
MaxSections == 3

\* Width of the modelled address word (uint64_t in the source).
WordBits == 20

(* ------------------------- program constants -------------------------- *)

\* (1<<16), the gap size limit.
GapLimit == 65536

\* The Value argument of the FillGap call.
FillValue == 0

(* ------------------------------ inputs -------------------------------- *)

WordModulus == 2 ^ WordBits

MaxWord == WordModulus - 1

\* Load address of the first scenario section.
BaseAddress == 4096

\* Section addresses the iterator may report: a base, the addresses one and
\* two bytes further, the address GapLimit bytes beyond the last of these
\* (GapLimit or GapLimit + 1 bytes past the end of a section that ends at
\* BaseAddress + 2 or BaseAddress + 1), and the largest address word.
Addresses ==
  { BaseAddress, BaseAddress + 1, BaseAddress + 2,
    BaseAddress + 2 + GapLimit, MaxWord }

\* (isBSS, contents) pairs a section may report.
SectionKinds ==
  { [bss |-> FALSE, contents |-> <<5>>],
    [bss |-> FALSE, contents |-> <<0, 9>>],
    [bss |-> FALSE, contents |-> <<>>],
    [bss |-> TRUE,  contents |-> <<7>>],
    [bss |-> TRUE,  contents |-> <<>>] }

\* The name of the i-th section of the object file.
SectionNames == <<".text", ".data", ".bss", ".rodata", ".init", ".fini">>

\* What getName / getContents return for a section: "ok", or which call failed.
ReadResults == {"ok", "name", "contents"}

\* The sections the iterator can yield at position i.
SectionsAt(i) ==
  { [name |-> SectionNames[i], addr |-> a, contents |-> k.contents,
     bss |-> k.bss, rd |-> "ok"] : a \in Addresses, k \in SectionKinds }

\* The sections on which getName or getContents can fail: the return comes
\* before getAddress and isBSS, so one address stands for all, and one BSS
\* section for the BSS sections.
FailingSectionsAt(i) ==
  { [s EXCEPT !.rd = r] :
      s \in { x \in SectionsAt(i) :
                x.addr = BaseAddress /\ (x.bss => x.contents = <<>>) },
      r \in ReadResults \ {"ok"} }

\* Everything the iterator can yield at position i.
YieldedAt(i) == SectionsAt(i) \cup FailingSectionsAt(i)

(* --------------------------- pure helpers ----------------------------- *)

\* uint64_t addition, as in SectionAddress + SectionContents.size().
AddWord(a, b) == (a + b) % WordModulus

\* uint64_t subtraction, as in SectionAddress - LastAddress.
SubWord(a, b) == (a - b + WordModulus) % WordModulus

\* Mutant of Filtered: the size test is missing.
FilteredOnlyBSS(s) == s.bss

\* The filter of CopyTo: BSS || SectionContents.size() == 0.
Filtered(s) == s.bss \/ Len(s.contents) = 0

\* Mutant of GapCase: the order test is <= instead of <, so a section that
\* starts exactly at LastAddress counts as out of order.
GapCaseOrderInclusive(fill, addr, last) ==
  IF ~fill THEN "first"
  ELSE IF addr <= last THEN "order"
  ELSE IF SubWord(addr, last) > GapLimit THEN "toolarge"
  ELSE "fill"

\* Mutant of GapCase: the limit test is >= instead of >, so a gap of exactly
\* (1<<16) bytes is refused.
GapCaseLimitExclusive(fill, addr, last) ==
  IF ~fill THEN "first"
  ELSE IF addr < last THEN "order"
  ELSE IF addr = last THEN "none"
  ELSE IF SubWord(addr, last) >= GapLimit THEN "toolarge"
  ELSE "fill"

\* Mutant of GapCase: the limit test is missing, every gap is filled.
GapCaseNoLimit(fill, addr, last) ==
  IF ~fill THEN "first"
  ELSE IF addr < last THEN "order"
  ELSE IF addr = last THEN "none"
  ELSE "fill"

\* The if / else-if chain under `if (FillNextGap)`.
GapCase(fill, addr, last) ==
  IF ~fill THEN "first"
  ELSE IF addr < last THEN "order"
  ELSE IF addr = last THEN "none"
  ELSE IF SubWord(addr, last) > GapLimit THEN "toolarge"
  ELSE "fill"

\* ObjectCopyBinary::PrintSection: one byte of the contents after the other.
PrintSection(o, contents) ==
  o \o [k \in 1..Len(contents) |-> [val |-> contents[k], cnt |-> 1]]

\* ObjectCopyBinary::FillGap: Size bytes of Value.
FillGap(o, Value, Size) ==
  IF Size = 0 THEN o ELSE Append(o, [val |-> Value, cnt |-> Size])

\* The bytes written for an emitted section: the gap fill, if there is a gap,
\* and the contents.
Emitted(o, gc, s, last) ==
  PrintSection(IF gc = "fill" THEN FillGap(o, FillValue, SubWord(s.addr, last))
               ELSE o,
               s.contents)

\* The diagnostic of the out-of-order branch: it names both sections.
OrderDiag(last, cur) == [msg |-> "invalid order", prev |-> last, cur |-> cur]

\* The diagnostic of the gap-limit branch: a fixed text.
GapDiag == [msg |-> "gap too large"]

(* ------------------------ the loop body of CopyTo --------------------- *)

\* Mutant of InitialCopyState: FillNextGap starts true.
InitialCopyStateFillPending ==
  [FillNextGap |-> TRUE, LastAddress |-> 0, LastSectionName |-> "",
   out |-> <<>>, errs |-> <<>>, ret |-> "none"]

\* The locals of CopyTo at the top of the loop, with what it has written and
\* the return it has taken: the values before the first iteration.
InitialCopyState ==
  [FillNextGap |-> FALSE, LastAddress |-> 0, LastSectionName |-> "",
   out |-> <<>>, errs |-> <<>>, ret |-> "none"]

\* Mutant of Branch: the BSS/empty filter comes before the test of the read
\* errors.
BranchFilterFirst(st, s) ==
  IF Filtered(s) THEN "filtered"
  ELSE IF s.rd # "ok" THEN "read"
  ELSE GapCase(st.FillNextGap, s.addr, st.LastAddress)

\* The path one iteration takes for section s: a failed getName/getContents,
\* the BSS/empty filter, or one of the cases of the gap chain.
Branch(st, s) ==
  IF s.rd # "ok" THEN "read"
  ELSE IF Filtered(s) THEN "filtered"
  ELSE GapCase(st.FillNextGap, s.addr, st.LastAddress)

\* if (error(...)) return;
OnReadError(st) == [st EXCEPT !.ret = "read"]

\* if (BSS || SectionContents.size() == 0) continue;
OnFiltered(st) == st

\* Mutant of OnOutOfOrder: return instead of continue (the commented-out
\* statement of the source).
OnOutOfOrderReturns(st, s) ==
  [st EXCEPT !.errs = Append(@, OrderDiag(st.LastSectionName, s.name)),
             !.ret = "order"]

\* SectionAddress < LastAddress: the diagnostic, then continue.
OnOutOfOrder(st, s) ==
  [st EXCEPT !.errs = Append(@, OrderDiag(st.LastSectionName, s.name))]

\* Mutant of OnGapTooLarge: continue instead of return.
OnGapTooLargeContinues(st, s) ==
  [st EXCEPT !.errs = Append(@, GapDiag)]

\* Mutant of OnGapTooLarge: the gap is filled up to the limit before the
\* return.
OnGapTooLargePads(st, s) ==
  [st EXCEPT !.out = FillGap(@, FillValue, GapLimit),
             !.errs = Append(@, GapDiag), !.ret = "gap"]

\* SectionAddress - LastAddress > (1<<16): the diagnostic, then return.
OnGapTooLarge(st, s) ==
  [st EXCEPT !.errs = Append(@, GapDiag), !.ret = "gap"]

\* Mutant of UpdateLocals: LastAddress is the start of the section, not its
\* end.
UpdateLocalsStartOnly(st, s, fillGaps) ==
  IF fillGaps
  THEN [st EXCEPT !.FillNextGap = TRUE,
                  !.LastSectionName = s.name,
                  !.LastAddress = s.addr]
  ELSE st

\* Mutant of UpdateLocals: the test of mFillGaps is missing.
UpdateLocalsAlways(st, s, fillGaps) ==
  [st EXCEPT !.FillNextGap = TRUE,
             !.LastSectionName = s.name,
             !.LastAddress = AddWord(s.addr, Len(s.contents))]

\* if (mFillGaps) { FillNextGap = true; LastSectionName = ...; LastAddress = ... }
UpdateLocals(st, s, fillGaps) ==
  IF fillGaps
  THEN [st EXCEPT !.FillNextGap = TRUE,
                  !.LastSectionName = s.name,
                  !.LastAddress = AddWord(s.addr, Len(s.contents))]
  ELSE st

\* FillGap where there is a gap, PrintSection, the update of the locals.
OnEmit(st, s, gc, fillGaps) ==
  UpdateLocals([st EXCEPT !.out = Emitted(@, gc, s, st.LastAddress)],
               s, fillGaps)

\* One iteration of the for loop of CopyTo on section s.
LoopBody(st, s, fillGaps) ==
  LET b == Branch(st, s) IN
  CASE b = "read" -> OnReadError(st)
    [] b = "filtered" -> OnFiltered(st)
    [] b = "order" -> OnOutOfOrder(st, s)
    [] b = "toolarge" -> OnGapTooLarge(st, s)
    [] OTHER -> OnEmit(st, s, b, fillGaps)

\* The for loop of CopyTo over the sections of seq, from state st: it stops at
\* the end of seq or at the first return.
RECURSIVE RunLoop(_, _, _)
RunLoop(st, seq, fillGaps) ==
  IF seq = <<>> \/ st.ret # "none" THEN st
  ELSE RunLoop(LoopBody(st, seq[1], fillGaps), Tail(seq), fillGaps)

(* ------------------------------- state -------------------------------- *)

VARIABLES
  pc,               \* "main", "copy" (in the loop of CopyTo), "ret", "exit"
  mFillGaps,        \* ObjectCopyBase::mFillGaps
  mBinaryOutput,    \* ObjectCopyBase::mBinaryOutput
  secs,             \* the sections the iterator has yielded so far
  FillNextGap,      \* local of CopyTo
  LastAddress,      \* local of CopyTo
  LastSectionName,  \* local of CopyTo
  out,              \* bytes written to Out.os(), as runs
  errs,             \* diagnostics written to errs()
  kept,             \* Out.keep() was called
  ret,              \* which return of CopyTo was taken ("none" while running)
  exitCode,         \* return value of main (-1 while running)
  printed           \* log: the sections PrintSection was called for, in order

vars == <<pc, mFillGaps, mBinaryOutput, secs, FillNextGap, LastAddress, LastSectionName,
          out, errs, kept, ret, exitCode, printed>>

members == <<mFillGaps, mBinaryOutput>>

copyVars == <<FillNextGap, LastAddress, LastSectionName, out, errs, ret>>

\* The state of CopyTo as a record.
Cur ==
  [FillNextGap |-> FillNextGap, LastAddress |-> LastAddress,
   LastSectionName |-> LastSectionName, out |-> out, errs |-> errs,
   ret |-> ret]

\* main up to the switch: ObjectCopyBinary is constructed.
Init ==
  /\ pc = "main"
  /\ mFillGaps = TRUE
  /\ mBinaryOutput = TRUE
  /\ secs = <<>>
  /\ FillNextGap = FALSE
  /\ LastAddress = 0
  /\ LastSectionName = ""
  /\ out = <<>>
  /\ errs = <<>>
  /\ kept = FALSE
  /\ ret = "none"
  /\ exitCode = -1
  /\ printed = <<>>

(* ------------------------------- main --------------------------------- *)

\* The reasons main returns 1 after the switch: the input file does not
\* exist, createBinary fails, or the binary is not an ObjectFile.
MainFailures == {"No such file", "createBinary", "not ObjectFile"}

\* One of the three `return 1` of main after the switch.
MainFails ==
  /\ pc = "main"
  /\ \E why \in MainFailures :
       errs' = IF why = "No such file" THEN Append(errs, [msg |-> why]) ELSE errs
  /\ pc' = "exit"
  /\ exitCode' = 1
  /\ UNCHANGED <<members, secs, FillNextGap, LastAddress, LastSectionName,
                 out, kept, ret, printed>>

\* Mutant of CallCopyTo: Out.keep() right after Out is opened.
CallCopyToKeepsAtOpen ==
  /\ pc = "main"
  /\ pc' = "copy"
  /\ kept' = TRUE
  /\ FillNextGap' = InitialCopyState.FillNextGap
  /\ LastAddress' = InitialCopyState.LastAddress
  /\ LastSectionName' = InitialCopyState.LastSectionName
  /\ UNCHANGED <<members, secs, out, errs, ret, exitCode, printed>>

\* ObjectCopy->CopyTo(Obj, OutputFilename): Out is opened, the locals are set.
CallCopyTo ==
  /\ pc = "main"
  /\ pc' = "copy"
  /\ FillNextGap' = InitialCopyState.FillNextGap
  /\ LastAddress' = InitialCopyState.LastAddress
  /\ LastSectionName' = InitialCopyState.LastSectionName
  /\ UNCHANGED <<members, secs, out, errs, kept, ret, exitCode, printed>>

(* ------------------------- the loop of CopyTo ------------------------- *)

\* The iterator has another section to yield.
HasNext == pc = "copy" /\ Len(secs) < MaxSections

\* One iteration of the loop on a section s that takes a path in `paths`.
Iterate(candidates, paths) ==
  /\ HasNext
  /\ \E s \in candidates :
       LET b == Branch(Cur, s)
           st == LoopBody(Cur, s, mFillGaps)
       IN /\ b \in paths
          /\ secs' = Append(secs, s)
          /\ FillNextGap' = st.FillNextGap
          /\ LastAddress' = st.LastAddress
          /\ LastSectionName' = st.LastSectionName
          /\ out' = st.out
          /\ errs' = st.errs
          /\ ret' = st.ret
          /\ pc' = IF st.ret = "none" THEN "copy" ELSE "ret"
          /\ printed' = IF b \in {"first", "none", "fill"}
                       THEN Append(printed, s) ELSE printed
  /\ UNCHANGED <<members, kept, exitCode>>

\* getName or getContents fails: return.
ReadFails == Iterate(YieldedAt(Len(secs) + 1), {"read"})

\* A BSS or empty section: continue.
SkipFiltered == Iterate(YieldedAt(Len(secs) + 1), {"filtered"})

\* A section that starts before LastAddress: diagnostic, continue.
SkipOutOfOrder == Iterate(YieldedAt(Len(secs) + 1), {"order"})

\* A section more than (1<<16) bytes after LastAddress: diagnostic, return.
GapTooLarge == Iterate(YieldedAt(Len(secs) + 1), {"toolarge"})

\* A section that is written, after the gap fill if there is a gap.
EmitSection == Iterate(YieldedAt(Len(secs) + 1), {"first", "none", "fill"})

\* si == se: the loop ends, Out.keep(), CopyTo returns.
EndOfSections ==
  /\ pc = "copy"
  /\ kept' = TRUE
  /\ pc' = "ret"
  /\ ret' = "end"
  /\ UNCHANGED <<members, secs, FillNextGap, LastAddress, LastSectionName,
                 out, errs, exitCode, printed>>

\* main after CopyTo: return 0.
MainReturns ==
  /\ pc = "ret"
  /\ pc' = "exit"
  /\ exitCode' = 0
  /\ UNCHANGED <<members, secs, copyVars, kept, printed>>

Next ==
  \/ MainFails
  \/ CallCopyTo
  \/ ReadFails
  \/ SkipFiltered
  \/ SkipOutOfOrder
  \/ GapTooLarge
  \/ EmitSection
  \/ EndOfSections
  \/ MainReturns

Spec == Init /\ [][Next]_vars

(* ------------- a copier with the members of ObjectCopyBase ------------ *)

\* A copier that is left as the constructor of ObjectCopyBase makes it:
\* mBinaryOutput(false), mFillGaps(false).  Its PrintSection writes the bytes
\* of the contents, as that of ObjectCopyBinary does.
InitBase ==
  /\ pc = "main"
  /\ mFillGaps = FALSE
  /\ mBinaryOutput = FALSE
  /\ secs = <<>>
  /\ FillNextGap = FALSE
  /\ LastAddress = 0
  /\ LastSectionName = ""
  /\ out = <<>>
  /\ errs = <<>>
  /\ kept = FALSE
  /\ ret = "none"
  /\ exitCode = -1
  /\ printed = <<>>

\* main with either copier: ObjectCopyBinary, or one with the members of
\* ObjectCopyBase.
SpecCopiers == (Init \/ InitBase) /\ [][Next]_vars

(* ------------------- CopyTo called twice on one object ---------------- *)

\* Mutant of CallCopyToAgain: FillNextGap, LastAddress and LastSectionName
\* keep their values from the call before (as if they were static).
CallCopyToAgainKeepsLocals ==
  /\ pc = "ret"
  /\ LET r == RunLoop([InitialCopyState EXCEPT
                         !.FillNextGap = FillNextGap,
                         !.LastAddress = LastAddress,
                         !.LastSectionName = LastSectionName],
                      secs, mFillGaps)
     IN /\ FillNextGap' = r.FillNextGap
        /\ LastAddress' = r.LastAddress
        /\ LastSectionName' = r.LastSectionName
        /\ out' = r.out
        /\ errs' = errs \o r.errs
        /\ ret' = IF r.ret = "none" THEN "end" ELSE r.ret
        /\ kept' = (r.ret = "none")
  /\ pc' = "ret2"
  /\ UNCHANGED <<members, secs, exitCode, printed>>

\* A second call of CopyTo on the same object file, after the first has
\* returned, as one step: a new Out is opened on the output file, the locals
\* are set, the loop runs over the same sections up to its first return or to
\* the end, where Out.keep() is called.  errs() goes on behind the diagnostics
\* of the first call; `printed` stays the log of the first call.
CallCopyToAgain ==
  /\ pc = "ret"
  /\ LET r == RunLoop(InitialCopyState, secs, mFillGaps)
     IN /\ FillNextGap' = r.FillNextGap
        /\ LastAddress' = r.LastAddress
        /\ LastSectionName' = r.LastSectionName
        /\ out' = r.out
        /\ errs' = errs \o r.errs
        /\ ret' = IF r.ret = "none" THEN "end" ELSE r.ret
        /\ kept' = (r.ret = "none")
  /\ pc' = "ret2"
  /\ UNCHANGED <<members, secs, exitCode, printed>>

NextTwice ==
  \/ CallCopyTo
  \/ ReadFails
  \/ SkipFiltered
  \/ SkipOutOfOrder
  \/ GapTooLarge
  \/ EmitSection
  \/ EndOfSections
  \/ CallCopyToAgain

\* CopyTo is called, and called again when it has returned.
SpecTwice == Init /\ [][NextTwice]_vars

(* ----------------------- vocabulary of the claims --------------------- *)

\* Number of bytes in a sequence of runs.
RECURSIVE OutLen(_)
OutLen(o) == IF o = <<>> THEN 0 ELSE o[1].cnt + OutLen(Tail(o))

\* A sequence of runs with adjacent runs of one value merged and empty runs
\* dropped: two run sequences are the same bytes iff their normal forms are
\* equal.
RECURSIVE Norm(_)
Norm(o) ==
  IF o = <<>> THEN <<>>
  ELSE LET r == Norm(Tail(o)) IN
       IF o[1].cnt = 0 THEN r
       ELSE IF r # <<>> /\ r[1].val = o[1].val
            THEN <<[val |-> o[1].val, cnt |-> o[1].cnt + r[1].cnt]>> \o Tail(r)
            ELSE <<o[1]>> \o r

SameBytes(o1, o2) == Norm(o1) = Norm(o2)

\* A byte sequence as runs.
AsRuns(bytes) == [k \in 1..Len(bytes) |-> [val |-> bytes[k], cnt |-> 1]]

\* n bytes of value 0 as runs.
Zeros(n) == <<[val |-> 0, cnt |-> n]>>

\* The contents of the sections of seq, one after the other.
RECURSIVE ConcatContents(_)
ConcatContents(seq) ==
  IF seq = <<>> THEN <<>> ELSE seq[1].contents \o ConcatContents(Tail(seq))

\* The address just past a section, as a number (not as an address word).
EndOf(s) == s.addr + Len(s.contents)

\* A section the algorithm considers: read without error, not BSS, not empty.
Eligible(s) == s.rd = "ok" /\ ~s.bss /\ s.contents # <<>>

\* Every section is eligible and starts exactly where the one before ends.
Contiguous(seq) ==
  \A i \in 1..Len(seq) :
    /\ Eligible(seq[i])
    /\ i > 1 => seq[i].addr = EndOf(seq[i - 1])

\* CopyTo has been called (it is running, or it has returned).
InCopyTo == pc = "copy" \/ ret # "none"

\* This step is one loop iteration, on the section Latest'.
Iterated == Len(secs') = Len(secs) + 1

Latest == secs[Len(secs)]

LastPrinted == printed[Len(printed)]

(* ------------------------------- claims ------------------------------- *)

\* C1: while the sections read so far are all eligible and each starts exactly
\* where the one before it ends, the bytes written are exactly the contents of
\* those sections in input order, no diagnostic is written and no abort
\* happens; when the loop ends on such a sequence the output is kept.
C1_ContiguousIsConcatenation ==
  (InCopyTo /\ Contiguous(secs)) =>
    /\ SameBytes(out, AsRuns(ConcatContents(secs)))
    /\ OutLen(out) = Len(ConcatContents(secs))
    /\ errs = <<>>
    /\ ret \in {"none", "end"}
    /\ (ret = "end" => kept)

\* C1 witness: .text at BaseAddress with 2 bytes, .data right behind it with
\* 1 byte, the loop has ended: 3 bytes.
C1_Witness ==
  /\ ret = "end"
  /\ Len(secs) = 2
  /\ Contiguous(secs)
  /\ secs[1].addr = BaseAddress /\ secs[2].addr = BaseAddress + 2
  /\ OutLen(out) = 3

\* C2: when a section is emitted before, and the loop comes to an eligible
\* section whose start is gap bytes past the end of the last emitted section
\* with 0 < gap <= 65536, the iteration appends exactly gap bytes of value 0
\* and then the contents of the section, right behind the contents of the last
\* emitted section.
C2_GapIsZeroFilled ==
  [][ (Iterated /\ printed # <<>> /\ Eligible(Latest')
         /\ Latest'.addr - EndOf(LastPrinted) > 0
         /\ Latest'.addr - EndOf(LastPrinted) <= 65536)
      => /\ SameBytes(out', out \o Zeros(Latest'.addr - EndOf(LastPrinted))
                              \o AsRuns(Latest'.contents))
         /\ OutLen(out') = OutLen(out) + (Latest'.addr - EndOf(LastPrinted))
                             + Len(Latest'.contents)
         /\ out[Len(out)].val = LastPrinted.contents[Len(LastPrinted.contents)]
         /\ out[Len(out)].cnt = 1
         /\ printed' = Append(printed, Latest')
    ]_vars

\* C2 witness: a gap of exactly 65536 bytes was filled.
C2_Witness ==
  /\ Len(printed) = 2
  /\ printed[2].addr - EndOf(printed[1]) = 65536
  /\ OutLen(out) = Len(printed[1].contents) + 65536 + Len(printed[2].contents)

\* C3: when the loop comes to an eligible section that starts more than 65536
\* bytes past the end of the last emitted section, CopyTo writes the gap
\* diagnostic and returns: nothing is appended, the output is not kept, and
\* after that return no section is read, nothing is written and the output is
\* never kept.
C3_GapTooLargeAborts ==
  [][ /\ (Iterated /\ printed # <<>> /\ Eligible(Latest')
            /\ Latest'.addr - EndOf(LastPrinted) > 65536)
         => /\ ret' = "gap" /\ pc' = "ret"
            /\ out' = out /\ printed' = printed /\ ~kept'
            /\ errs' = Append(errs, GapDiag)
      /\ ret = "gap" => /\ ret' = "gap" /\ secs' = secs /\ out' = out
                        /\ printed' = printed /\ ~kept'
    ]_vars

\* C3 witness: .text was written, a section 65537 bytes behind its end made
\* CopyTo return, and main has returned.
C3_Witness ==
  /\ pc = "exit" /\ ret = "gap"
  /\ Len(printed) = 1
  /\ Latest.addr - EndOf(printed[1]) = 65537
  /\ SameBytes(out, AsRuns(printed[1].contents))
  /\ ~kept

\* C4: the process exits with code 1 when the input cannot be acquired and
\* when CopyTo returned on the gap limit, and with code 0 when CopyTo ran to
\* the end of the sections.
C4_ExitCodeOneOnFailure ==
  pc = "exit" =>
    /\ (ret = "none" \/ ret = "gap") => exitCode = 1
    /\ ret = "end" => exitCode = 0

\* C5: when the loop comes to an eligible section that starts before
\* LastAddress, the iteration writes the diagnostic naming the last emitted
\* section and this section, writes no byte, leaves FillNextGap, LastAddress
\* and LastSectionName as they are and goes on with the loop; LastAddress and
\* LastSectionName stay those of the last emitted section, against which the
\* next gap is computed.
C5_OutOfOrderIsSkipped ==
  [][ /\ (Iterated /\ Eligible(Latest') /\ Latest'.addr < LastAddress)
         => /\ errs' = Append(errs, OrderDiag(LastPrinted.name, Latest'.name))
            /\ out' = out /\ printed' = printed
            /\ FillNextGap' = FillNextGap
            /\ LastAddress' = LastAddress
            /\ LastSectionName' = LastSectionName
            /\ pc' = "copy" /\ ret' = "none" /\ ~kept'
      /\ printed' # <<>>
         => /\ FillNextGap'
            /\ LastSectionName' = LastPrinted'.name
            /\ LastAddress' = EndOf(LastPrinted') % WordModulus
    ]_vars

\* C5 witness: .text was written, the second section starts inside it and was
\* skipped with the diagnostic, the third starts at the end of .text and was
\* written right behind it.
C5_Witness ==
  /\ Len(secs) = 3 /\ Len(printed) = 2
  /\ Eligible(secs[2]) /\ secs[2].addr < EndOf(secs[1])
  /\ printed = <<secs[1], secs[3]>>
  /\ errs = <<OrderDiag(secs[1].name, secs[2].name)>>
  /\ secs[3].addr = EndOf(secs[1])
  /\ OutLen(out) = Len(secs[1].contents) + Len(secs[3].contents)

\* The sections of seq that were read without error.
ReadOk(seq) == SelectSeq(seq, LAMBDA s : s.rd = "ok")

\* seq without its uninitialized (BSS) and its empty sections.
WithoutSkipped(seq) == SelectSeq(seq, LAMBDA s : ~s.bss /\ s.contents # <<>>)

\* C6: at every point of CopyTo, the bytes written, the diagnostics, the
\* locals FillNextGap, LastAddress, LastSectionName and the outcome are those
\* of the loop run on the sections read so far with the BSS and the empty
\* ones removed.
C6_SkippedSectionsAreTransparent ==
  InCopyTo =>
    LET r == RunLoop(InitialCopyState, WithoutSkipped(ReadOk(secs)), mFillGaps)
    IN /\ out = r.out
       /\ errs = r.errs
       /\ FillNextGap = r.FillNextGap
       /\ LastAddress = r.LastAddress
       /\ LastSectionName = r.LastSectionName
       /\ r.ret \in {"none", "gap"}
       /\ ret # "read" => (ret = "gap") = (r.ret = "gap")

\* C6 witness: an empty section and a BSS section with contents lie between
\* two written sections, the second of which has a gap filled before it.
C6_Witness ==
  /\ Len(secs) = MaxSections /\ Len(printed) = 2
  /\ printed = <<secs[1], secs[MaxSections]>>
  /\ secs[2].bss /\ secs[2].contents # <<>>
  /\ secs[MaxSections].addr > EndOf(secs[1])
  /\ OutLen(out) = secs[MaxSections].addr + Len(secs[MaxSections].contents)
                     - secs[1].addr

\* The bytes of o from offset lo (included) to offset hi (excluded), as runs.
RECURSIVE SubRuns(_, _, _)
SubRuns(o, lo, hi) ==
  IF o = <<>> \/ hi <= 0 THEN <<>>
  ELSE LET c == o[1].cnt
           a == IF lo > 0 THEN lo ELSE 0
           b == IF hi < c THEN hi ELSE c
       IN (IF a < b THEN <<[val |-> o[1].val, cnt |-> b - a]>> ELSE <<>>)
            \o SubRuns(Tail(o), lo - c, hi - c)

\* The output offset of address a: its distance from the start of the first
\* emitted section, in the address word.
OffsetOf(a) == (a - printed[1].addr + WordModulus) % WordModulus

\* C7: at every point of CopyTo after the first emitted section, the output
\* length is LastAddress minus the start address of the first emitted section
\* (in the address word), every emitted section's contents lie at the offset
\* of its start address, in emission order, and every byte between the end of
\* one emitted section and the start of the next is 0.
C7_OutputIsContiguousImage ==
  (InCopyTo /\ printed # <<>>) =>
    /\ OutLen(out) = OffsetOf(LastAddress)
    /\ OutLen(out) = OffsetOf(LastPrinted.addr) + Len(LastPrinted.contents)
    /\ \A j \in 1..Len(printed) :
         LET at == OffsetOf(printed[j].addr)
             before == IF j = 1 THEN 0
                       ELSE OffsetOf(printed[j - 1].addr)
                              + Len(printed[j - 1].contents)
         IN /\ before <= at
            /\ SameBytes(SubRuns(out, before, at), Zeros(at - before))
            /\ SameBytes(SubRuns(out, at, at + Len(printed[j].contents)),
                         AsRuns(printed[j].contents))

\* C7 witness: three sections are written, with no gap before the second and
\* a gap before the third.
C7_Witness ==
  /\ Len(printed) = 3
  /\ printed[2].addr = EndOf(printed[1])
  /\ printed[3].addr > EndOf(printed[2])
  /\ OutLen(out) = EndOf(printed[3]) - printed[1].addr

\* C8: no run ends with the output kept and exit code 0 while an eligible
\* section of the input is missing from the output.
C8_NoSilentTruncation ==
  (pc = "exit" /\ kept /\ exitCode = 0) =>
    \A i \in 1..Len(secs) :
      Eligible(secs[i]) => \E j \in 1..Len(printed) : printed[j] = secs[i]

\* C9: the output is kept only when the loop has run to the end of the
\* sections, every section was read without error and no gap abort happened;
\* when CopyTo returns from inside the loop the output is not kept, up to the
\* exit of the process.
C9_KeptOnlyAfterWholeLoop ==
  /\ kept => /\ ret = "end"
             /\ pc \in {"ret", "exit"}
             /\ \A i \in 1..Len(secs) : secs[i].rd = "ok"
             /\ \A k \in 1..Len(errs) : errs[k] # GapDiag
  /\ (InCopyTo /\ ret # "end") => ~kept

\* C9 witness: the process has exited after a read error behind a written
\* section, and the output was not kept.
C9_Witness ==
  /\ pc = "exit" /\ ret = "read" /\ ~kept
  /\ printed # <<>> /\ out # <<>>

\* C10: when the loop comes to the first eligible section, whatever its start
\* address and whatever BSS or empty sections came before it, the iteration
\* writes its contents as the first bytes of the output, with no padding, no
\* diagnostic and no return.
C10_FirstSectionHasNoGapCheck ==
  [][ (Iterated /\ printed = <<>> /\ Eligible(Latest'))
      => /\ out = <<>>
         /\ SameBytes(out', AsRuns(Latest'.contents))
         /\ OutLen(out') = Len(Latest'.contents)
         /\ printed' = <<Latest'>>
         /\ errs' = errs /\ errs = <<>>
         /\ ret' = "none" /\ pc' = "copy"
    ]_vars

\* C10 witness: a BSS section, then a section at an address above 65536 + the
\* address of the BSS section: the output is that section's contents.
C10_Witness ==
  /\ Len(secs) = 2 /\ secs[1].bss
  /\ secs[2].addr > secs[1].addr + 65536
  /\ printed = <<secs[2]>>
  /\ SameBytes(out, AsRuns(secs[2].contents))

\* C11: when getName or getContents fails on a section, CopyTo returns at
\* once, whether or not the section is BSS or empty: no byte and no diagnostic
\* is written, the locals are left alone, the output is not kept, and after
\* that return no section is read and nothing is written.
C11_ReadErrorAborts ==
  [][ /\ (Iterated /\ Latest'.rd # "ok")
         => /\ ret' = "read" /\ pc' = "ret"
            /\ out' = out /\ printed' = printed /\ errs' = errs
            /\ FillNextGap' = FillNextGap
            /\ LastAddress' = LastAddress
            /\ LastSectionName' = LastSectionName
            /\ ~kept'
      /\ ret = "read" => /\ ret' = "read" /\ secs' = secs /\ out' = out
                         /\ printed' = printed /\ ~kept'
    ]_vars

\* C11 witness: behind a written section, the read of a BSS section failed;
\* the process has exited with the bytes of the first section only and the
\* output not kept.
C11_Witness ==
  /\ pc = "exit" /\ ret = "read"
  /\ Len(secs) = 2 /\ Latest.bss /\ Latest.rd # "ok"
  /\ printed = <<secs[1]>>
  /\ SameBytes(out, AsRuns(secs[1].contents))
  /\ ~kept

\* C12: when CopyTo has returned on the gap limit, the last diagnostic carries
\* the name of the last emitted section, the name of the section that was
\* refused and the size of the gap between them.
C12_GapErrorIdentifiesGap ==
  ret = "gap" =>
    LET d == errs[Len(errs)] IN
      /\ {"prev", "cur", "size"} \subseteq DOMAIN d
      /\ d.prev = LastPrinted.name
      /\ d.cur = Latest.name
      /\ d.size = Latest.addr - EndOf(LastPrinted)

\* The number of gaps between n emitted sections.
GapsBetween(n) == IF n = 0 THEN 0 ELSE n - 1

\* C13: in every state the number of bytes written is at most the sum of the
\* content lengths of the emitted sections plus 65536 for each gap between
\* two emitted sections (one less than the number of emitted sections).
C13_OutputSizeIsBounded ==
  OutLen(out) <= Len(ConcatContents(printed))
                   + 65536 * GapsBetween(Len(printed))

\* C13 witness: two sections are written with a gap of 65536 bytes between
\* them: the bound is reached.
C13_Witness ==
  /\ Len(printed) = 2
  /\ printed[2].addr - EndOf(printed[1]) = 65536
  /\ OutLen(out) = Len(ConcatContents(printed)) + 65536
  /\ ret = "end"

C15_EmittedInAscendingOrder ==
  [][ printed' # printed
      => /\ \A i \in 1..Len(printed) : Latest'.addr >= EndOf(printed[i])
         /\ LastAddress' >= LastAddress
    ]_vars

\* The padding a step has written in front of the contents of section s.
PaddingBefore(s) == OutLen(out') - OutLen(out) - Len(s.contents)

\* C16: a step that emits no section (a skip, a return, any step outside
\* the loop) writes nothing; a step that emits a section appends padding of
\* value 0 and then the non-empty contents of that section, and the padding
\* is empty unless a section was emitted before; so after every step a
\* non-empty output begins with the contents of the first emitted section and
\* ends with the contents of the last one.
C16_PaddingOnlyBetweenSections ==
  [][ /\ printed' = printed => out' = out
      /\ printed' # printed
         => /\ printed' = Append(printed, Latest')
            /\ Latest'.contents # <<>>
            /\ PaddingBefore(Latest') >= 0
            /\ SameBytes(out', out \o Zeros(PaddingBefore(Latest'))
                                   \o AsRuns(Latest'.contents))
            /\ PaddingBefore(Latest') > 0 => (printed # <<>> /\ out # <<>>)
      /\ out' # <<>>
         => /\ printed' # <<>>
            /\ SameBytes(SubRuns(out', 0, Len(printed'[1].contents)),
                         AsRuns(printed'[1].contents))
            /\ SameBytes(SubRuns(out',
                                 OutLen(out') - Len(LastPrinted'.contents),
                                 OutLen(out')),
                         AsRuns(LastPrinted'.contents))
    ]_vars

\* C16 witness: a gap was filled between two written sections, then a third
\* section made CopyTo return on the gap limit: the output is the two
\* sections with the padding between them.
C16_Witness ==
  /\ Len(printed) = 2 /\ Len(secs) = 3
  /\ printed = <<secs[1], secs[2]>>
  /\ printed[2].addr > EndOf(printed[1])
  /\ ret = "gap"
  /\ OutLen(out) = EndOf(printed[2]) - printed[1].addr

\* C17: the copier of ObjectCopyBinary has mFillGaps true; for a copier
\* whose mFillGaps is false, at every point of CopyTo FillNextGap is false,
\* LastAddress is 0 and LastSectionName is empty, no diagnostic is written, no
\* return on the gap limit is taken, every non-BSS, non-empty section read so
\* far is written and the output is their contents in input order, with no
\* fill byte.
C17_GapTrackingOnlyWithFillGaps ==
  /\ mBinaryOutput => mFillGaps
  /\ (~mFillGaps /\ InCopyTo)
     => /\ ~FillNextGap
        /\ LastAddress = 0
        /\ LastSectionName = ""
        /\ errs = <<>>
        /\ ret # "gap"
        /\ printed = WithoutSkipped(ReadOk(secs))
        /\ SameBytes(out, AsRuns(ConcatContents(printed)))
        /\ OutLen(out) = Len(ConcatContents(printed))

\* C17 witness: with mFillGaps false three sections are written, the second
\* of which starts below the first and the third more than 65536 bytes past
\* the end of the second; the loop has ended and the output is kept.
C17_Witness ==
  /\ ~mFillGaps /\ ret = "end" /\ kept
  /\ Len(printed) = 3
  /\ printed[2].addr < printed[1].addr
  /\ printed[3].addr - EndOf(printed[2]) > 65536
  /\ OutLen(out) = Len(ConcatContents(printed))

====
